---- MODULE Spec2Model ----
(***************************************************************************)
(* A model of the astra actor runtime:                                     *)
(*   - ActorSystem (src/src/actor_system.rs): the name -> Sender registry, *)
(*     the bounded mailbox of every spawned actor task, the task loop      *)
(*     `while let Some(m) = rx.recv().await { actor.receive(m).await }`     *)
(*     followed by `actor.cleanup().await`, send_message and shutdown.     *)
(*   - SnapshotActor (src/src/snapshot_actor.rs) over the file backend     *)
(*     (src/src/backends/file.rs): save_state / load_state / set_state,    *)
(*     the periodic task and its watch-channel shutdown signal.            *)
(* The two halves do not interact in the source (a SnapshotActor is never  *)
(* registered in an ActorSystem), so each has its own specification; the   *)
(* variables of the other half stay at their initial values.               *)
(***************************************************************************)
EXTENDS Integers, Sequences, FiniteSets, TLC

\* ------------------------------------------------------------------ bounds
\* Tasks that add_actor may spawn in one run.
MaxTasks == 2
\* send_message calls issued in one run (all callers together).
MaxSends == 3
\* shutdown() calls issued in one run (all callers together).
MaxShutdowns == 1
\* The model's cap on the mailbox capacity (see MailboxCap).
CapBound == 2
\* Longest actor_id and longest state value (in characters).
MaxIdLen == 1
MaxStateLen == 2
\* Interval periods that may elapse while one snapshot task runs.
MaxIntervals == 1
\* shutdown() calls on the SnapshotActors of one watch channel.
MaxSignals == 2
\* handle_failure calls on one Supervisor.
MaxReports == 3

\* ------------------------------------------------------- program constants
\* mpsc::channel(100)
CHANNEL_CAPACITY == 100

\* The capacity the model runs with: the program's capacity, capped by
\* CapBound so that a full mailbox is reachable within the bounds.
MailboxCap == IF CHANNEL_CAPACITY < CapBound THEN CHANNEL_CAPACITY ELSE CapBound

\* ------------------------------------------------------------ actor system
Names == {"a", "b"}
Callers == {"c1", "c2"}
TaskIds == 1..MaxTasks
NoTask == 0

\* enum Message<M> { Regular(M), Shutdown }.  A Regular payload is tagged
\* with the caller that sent it and that caller's call number, so that two
\* payloads are never confused.
Regular(c, n) == [kind |-> "Regular", from |-> c, seq |-> n]
Shutdown == [kind |-> "Shutdown", from |-> "-", seq |-> 0]

VARIABLES
    actors,     \* ActorSystem.actors: name -> id of the task holding the
                \* Receiver of the stored Sender (NoTask: no entry)
    dropped,    \* TRUE once the ActorSystem value has been dropped
    spawned,    \* number of tasks spawned so far (ids 1..spawned)
    mailbox,    \* task id -> envelopes queued in its channel
    task,       \* task id -> position of the task in its loop
    received,   \* task id -> envelopes passed to actor.receive, in order
    nerrs,      \* task id -> number of actor.receive calls that returned Err
    cleanups,   \* task id -> number of times actor.cleanup was invoked
    accepted,   \* task id -> envelopes whose send returned Ok, in order
    cpc,        \* caller -> "idle" | "send_wait" | "shutdown" | "shutdown_wait"
    waitq,      \* task id -> callers suspended in Sender::send on its channel
                \* that have no slot yet, in the order they asked
    granted,    \* callers suspended in Sender::send that a freed slot has
                \* been handed to, and that have not run since
    ctarget,    \* caller -> task id of the Sender it is suspended on
    cenv,       \* caller -> envelope it is trying to enqueue
    ctodo,      \* caller -> registry entries shutdown() has not visited yet
    cname,      \* caller -> actor_name of its last send_message call
    cresult,    \* caller -> result of its last send_message call
    cseq,       \* caller -> number of send_message calls it has issued
    nshutdowns  \* number of shutdown() calls issued

sysVars == <<actors, dropped, spawned, mailbox, task, received, nerrs,
             cleanups, accepted, waitq, granted, cpc, ctarget, cenv, ctodo,
             cname, cresult, cseq, nshutdowns>>

\* ---------------------------------------------------------- snapshot actor
\* Two SnapshotActor values over FileBackends of one file_path: "orig", and
\* "other", which starts as an independent instance (its own actor_id and
\* watch channel) and becomes a copy of "orig" when clone() is called.
Insts == {"orig", "other"}

VARIABLES
    state,      \* instance -> SnapshotActor.state
    actor_id,   \* instance -> SnapshotActor.actor_id
    chan,       \* instance -> the watch channel of its shutdown_tx/shutdown_rx
    file,       \* content of the file at FileBackend.file_path
    version,    \* watch channel -> number of values sent on it
    ptask,      \* instance -> position of its start_snapshot_task call
    task_rx,    \* instance -> version last seen by the task's own receiver
    tick_due,   \* instance -> the task's interval has a tick ready
    elapsed,    \* instance -> interval periods elapsed since the task began
    saved,      \* the (actor_id, state) of the last successful write
    tfail,      \* instance -> saves of its periodic task: "no" failure yet,
                \* the last one "failed", or one has "saved_after" a failure
    nsaves,     \* instance -> saves made by its start_snapshot_task call
    sres        \* the last save_state/load_state call: <<instance, call, result>>

snapVars == <<state, actor_id, chan, file, version, ptask, task_rx, tick_due,
              elapsed, saved, tfail, nsaves, sres>>

\* ------------------------------------- documented usage, backend, supervisor
VARIABLES
    lock,       \* holder of the tokio Mutex around the SnapshotActor "orig"
    mpc,        \* position of the main task of the documented example
    bpc,        \* position of the background task it spawns
    dexists,    \* the file of the DataActor's FileBackend exists
    dfile,      \* its content
    dlast,      \* the data of the successful writes, latest first (two kept)
    dintact,    \* no failed write or removal has touched the file since
    dres,       \* the last DataActor call and what it returned
    strategy,   \* Supervisor.strategy
    hlog,       \* the lines handle_failure has printed
    hres        \* what the last handle_failure call returned

docVars == <<lock, mpc, bpc>>
backVars == <<dexists, dfile, dlast, dintact, dres>>
supVars == <<strategy, hlog, hres>>
auxVars == <<docVars, backVars, supVars>>

vars == <<sysVars, snapVars, auxVars>>

\* --------------------------------------------------------------- helpers
Range(f) == {f[x] : x \in DOMAIN f}

\* The registry still holds a Sender of task i.
SenderHeld(i) == \E n \in Names : actors[n] = i

\* The Receiver of task i has been dropped (the task's future completed or
\* unwound), so a send on its Sender fails.
Closed(i) == task[i] \in {"panicked", "done"}

\* The slots of the channel of task i that are in use: one per queued
\* envelope and one per suspended sender that a freed slot was handed to.
\* (tokio's bounded channel hands a freed slot to the earliest suspended
\* sender; it is never available to a later one.)
Taken(i) ==
    Len(mailbox[i]) + Cardinality({c \in granted : ctarget[c] = i})

\* A channel that admits one envelope more than its capacity.
HasRoomOffByOne(i) == Taken(i) <= MailboxCap

\* A send on the channel of task i gets a slot at once.
HasRoom(i) == Taken(i) < MailboxCap

\* The queue of suspended senders without caller c.
Without(q, c) == SelectSeq(q, LAMBDA x : x # c)

\* No caller is inside a call on the ActorSystem (it is not borrowed).
NotBorrowed == \A c \in Callers : cpc[c] = "idle"

\* send_message calls issued so far, by all callers.
SendsIssued == cseq["c1"] + cseq["c2"]

\* A channel that hands out the newest envelope first.
EnqueueAtFront(q, e) == <<e>> \o q

\* Sender::send once a slot is free: the envelope goes to the back.
Enqueue(q, e) == Append(q, e)

\* Receiver::recv with a queued envelope: the front one is returned.
NextEnvelope(q) == Head(q)
AfterRecv(q) == Tail(q)

\* The actor-system half after ActorSystem::new().
SysIdle ==
    /\ actors = [n \in Names |-> NoTask]
    /\ dropped = FALSE
    /\ spawned = 0
    /\ mailbox = [i \in TaskIds |-> <<>>]
    /\ task = [i \in TaskIds |-> "unspawned"]
    /\ received = [i \in TaskIds |-> <<>>]
    /\ nerrs = [i \in TaskIds |-> 0]
    /\ cleanups = [i \in TaskIds |-> 0]
    /\ accepted = [i \in TaskIds |-> <<>>]
    /\ waitq = [i \in TaskIds |-> <<>>]
    /\ granted = {}
    /\ cpc = [c \in Callers |-> "idle"]
    /\ ctarget = [c \in Callers |-> NoTask]
    /\ cenv = [c \in Callers |-> Shutdown]
    /\ ctodo = [c \in Callers |-> {}]
    /\ cname = [c \in Callers |-> "-"]
    /\ cresult = [c \in Callers |-> "none"]
    /\ cseq = [c \in Callers |-> 0]
    /\ nshutdowns = 0

\* The snapshot half before any SnapshotActor is used.
SnapIdle ==
    /\ state = [x \in Insts |-> <<>>]
    /\ actor_id = [x \in Insts |-> <<>>]
    /\ chan = [x \in Insts |-> IF x = "orig" THEN 1 ELSE 2]
    /\ file = <<>>
    /\ version = [ch \in 1..2 |-> 0]
    /\ ptask = [x \in Insts |-> "none"]
    /\ task_rx = [x \in Insts |-> 0]
    /\ tick_due = [x \in Insts |-> FALSE]
    /\ elapsed = [x \in Insts |-> 0]
    /\ saved = <<>>
    /\ tfail = [x \in Insts |-> "no"]
    /\ nsaves = [x \in Insts |-> 0]
    /\ sres = <<>>

\* The documented example has not begun.
DocIdle == lock = "free" /\ mpc = "none" /\ bpc = "none"

\* No DataActor has been made: FileBackend::new has not created a file.
BackIdle ==
    /\ dexists = FALSE
    /\ dfile = <<>>
    /\ dlast = <<>>
    /\ dintact = TRUE
    /\ dres = <<>>

\* No Supervisor has been made.
SupIdle == strategy = "none" /\ hlog = <<>> /\ hres = "none"

AuxIdle == DocIdle /\ BackIdle /\ SupIdle

\* ActorSystem::new(): an empty registry, nothing spawned.
SysInit == SysIdle /\ SnapIdle /\ AuxIdle

\* An add_actor whose insert keeps the entry a registered name already has
\* (the new Sender is the one that is dropped).
add_actor_keep_first(name) ==
    /\ ~dropped
    /\ NotBorrowed
    /\ spawned < MaxTasks
    /\ spawned' = spawned + 1
    /\ task' = [task EXCEPT ![spawned + 1] = "recv"]
    /\ actors' = IF actors[name] # NoTask THEN actors
                 ELSE [actors EXCEPT ![name] = spawned + 1]
    /\ UNCHANGED <<dropped, mailbox, received, nerrs, cleanups, accepted,
                   cpc, ctarget, cenv, ctodo, cname, cresult, cseq,
                   nshutdowns, waitq, granted, snapVars, auxVars>>

\* ActorSystem::add_actor(&mut self, name, actor): a new channel and a new
\* task; the entry of `name` is inserted or replaced.
add_actor(name) ==
    /\ ~dropped
    /\ NotBorrowed
    /\ spawned < MaxTasks
    /\ spawned' = spawned + 1
    /\ task' = [task EXCEPT ![spawned + 1] = "recv"]
    /\ actors' = [actors EXCEPT ![name] = spawned + 1]
    /\ UNCHANGED <<dropped, mailbox, received, nerrs, cleanups, accepted,
                   cpc, ctarget, cenv, ctodo, cname, cresult, cseq,
                   nshutdowns, waitq, granted, snapVars, auxVars>>

\* The ActorSystem goes out of scope: every Sender it holds is dropped.
drop_system ==
    /\ ~dropped
    /\ NotBorrowed
    /\ dropped' = TRUE
    /\ actors' = [n \in Names |-> NoTask]
    /\ UNCHANGED <<spawned, mailbox, task, received, nerrs, cleanups,
                   accepted, cpc, ctarget, cenv, ctodo, cname, cresult, cseq,
                   nshutdowns, waitq, granted, snapVars, auxVars>>

\* ------------------------------------------------------------ send_message
\* The envelope enters the channel of task i; the send returns Ok.
Deliver(i, e) ==
    /\ mailbox' = [mailbox EXCEPT ![i] = Enqueue(@, e)]
    /\ accepted' = [accepted EXCEPT ![i] = Append(@, e)]

\* A send_message that reports success for a name it does not know.
send_not_found_as_ok(c) ==
    /\ cresult' = [cresult EXCEPT ![c] = "Ok"]
    /\ UNCHANGED <<mailbox, accepted, waitq, granted, cpc, ctarget, cenv>>

\* The else branch of send_message: Err("Actor {} not found").
send_not_found(c) ==
    /\ cresult' = [cresult EXCEPT ![c] = "NotFound"]
    /\ UNCHANGED <<mailbox, accepted, waitq, granted, cpc, ctarget, cenv>>

\* ActorSystem::send_message(&self, actor_name, message).  With a free slot
\* the send completes in the same poll; with the channel full the caller is
\* suspended in Sender::send (cpc = "send_wait").
send_message(c, name) ==
    /\ ~dropped
    /\ cpc[c] = "idle"
    /\ SendsIssued < MaxSends
    /\ cseq' = [cseq EXCEPT ![c] = @ + 1]
    /\ cname' = [cname EXCEPT ![c] = name]
    /\ LET i == actors[name]
           e == Regular(c, cseq[c] + 1)
       IN  IF i = NoTask THEN send_not_found(c)
           ELSE IF Closed(i) THEN
                /\ cresult' = [cresult EXCEPT ![c] = "SendError"]
                /\ UNCHANGED <<mailbox, accepted, waitq, granted, cpc,
                               ctarget, cenv>>
           ELSE IF HasRoom(i) THEN
                /\ Deliver(i, e)
                /\ cresult' = [cresult EXCEPT ![c] = "Ok"]
                /\ UNCHANGED <<waitq, granted, cpc, ctarget, cenv>>
           ELSE /\ cpc' = [cpc EXCEPT ![c] = "send_wait"]
                /\ ctarget' = [ctarget EXCEPT ![c] = i]
                /\ cenv' = [cenv EXCEPT ![c] = e]
                /\ cresult' = [cresult EXCEPT ![c] = "pending"]
                /\ waitq' = [waitq EXCEPT ![i] = Append(@, c)]
                /\ UNCHANGED <<mailbox, accepted, granted>>
    /\ UNCHANGED <<actors, dropped, spawned, task, received, nerrs, cleanups,
                   ctodo, nshutdowns, snapVars, auxVars>>

\* A caller suspended in send_message runs again: it was handed a slot (the
\* envelope is enqueued) or the Receiver was dropped (the send fails).
send_resume(c) ==
    /\ cpc[c] = "send_wait"
    /\ LET i == ctarget[c] IN
         /\ waitq' = [waitq EXCEPT ![i] = Without(@, c)]
         /\ granted' = granted \ {c}
         /\ \/ /\ Closed(i)
               /\ cresult' = [cresult EXCEPT ![c] = "SendError"]
               /\ UNCHANGED <<mailbox, accepted>>
            \/ /\ ~Closed(i)
               /\ c \in granted
               /\ Deliver(i, cenv[c])
               /\ cresult' = [cresult EXCEPT ![c] = "Ok"]
    /\ cpc' = [cpc EXCEPT ![c] = "idle"]
    /\ ctarget' = [ctarget EXCEPT ![c] = NoTask]
    /\ UNCHANGED <<actors, dropped, spawned, task, received, nerrs, cleanups,
                   cenv, ctodo, cname, cseq, nshutdowns, snapVars, auxVars>>

\* ---------------------------------------------------------------- shutdown
\* ActorSystem::shutdown(&self) is entered: the loop will visit every entry
\* of self.actors (in the HashMap's arbitrary order).
shutdown(c) ==
    /\ ~dropped
    /\ cpc[c] = "idle"
    /\ nshutdowns < MaxShutdowns
    /\ nshutdowns' = nshutdowns + 1
    /\ cpc' = [cpc EXCEPT ![c] = "shutdown"]
    /\ ctodo' = [ctodo EXCEPT ![c] = {n \in Names : actors[n] # NoTask}]
    /\ UNCHANGED <<actors, dropped, spawned, mailbox, task, received, nerrs,
                   cleanups, accepted, ctarget, cenv, cname, cresult, cseq,
                   waitq, granted, snapVars, auxVars>>

\* One iteration of the for loop: sender.send(Message::Shutdown).await on the
\* next entry.  An Err is printed and the loop goes on; a full channel
\* suspends the loop inside this iteration (cpc = "shutdown_wait").
shutdown_step(c) ==
    /\ cpc[c] = "shutdown"
    /\ \E n \in ctodo[c] :
         LET i == actors[n] IN
         /\ ctodo' = [ctodo EXCEPT ![c] = @ \ {n}]
         /\ IF Closed(i) THEN
                UNCHANGED <<mailbox, accepted, waitq, granted, cpc,
                            ctarget>>
            ELSE IF HasRoom(i) THEN
                /\ Deliver(i, Shutdown)
                /\ UNCHANGED <<waitq, granted, cpc, ctarget>>
            ELSE
                /\ cpc' = [cpc EXCEPT ![c] = "shutdown_wait"]
                /\ ctarget' = [ctarget EXCEPT ![c] = i]
                /\ waitq' = [waitq EXCEPT ![i] = Append(@, c)]
                /\ UNCHANGED <<mailbox, accepted, granted>>
    /\ UNCHANGED <<actors, dropped, spawned, task, received, nerrs, cleanups,
                   cenv, cname, cresult, cseq, nshutdowns, snapVars, auxVars>>

\* The suspended iteration of shutdown() runs again.
shutdown_resume(c) ==
    /\ cpc[c] = "shutdown_wait"
    /\ LET i == ctarget[c] IN
         /\ waitq' = [waitq EXCEPT ![i] = Without(@, c)]
         /\ granted' = granted \ {c}
         /\ \/ /\ Closed(i)
               /\ UNCHANGED <<mailbox, accepted>>
            \/ /\ ~Closed(i)
               /\ c \in granted
               /\ Deliver(i, Shutdown)
    /\ cpc' = [cpc EXCEPT ![c] = "shutdown"]
    /\ ctarget' = [ctarget EXCEPT ![c] = NoTask]
    /\ UNCHANGED <<actors, dropped, spawned, task, received, nerrs, cleanups,
                   cenv, ctodo, cname, cresult, cseq, nshutdowns, snapVars,
                   auxVars>>

\* A shutdown() that unregisters the actors it has visited before returning.
shutdown_return_unregister(c) ==
    /\ cpc[c] = "shutdown"
    /\ ctodo[c] = {}
    /\ cpc' = [cpc EXCEPT ![c] = "idle"]
    /\ actors' = [n \in Names |-> NoTask]
    /\ UNCHANGED <<dropped, spawned, mailbox, task, received, nerrs,
                   cleanups, accepted, ctarget, cenv, ctodo, cname, cresult,
                   cseq, nshutdowns, waitq, granted, snapVars, auxVars>>

\* The for loop has visited every entry: shutdown() returns.
shutdown_return(c) ==
    /\ cpc[c] = "shutdown"
    /\ ctodo[c] = {}
    /\ cpc' = [cpc EXCEPT ![c] = "idle"]
    /\ UNCHANGED <<actors, dropped, spawned, mailbox, task, received, nerrs,
                   cleanups, accepted, ctarget, cenv, ctodo, cname, cresult,
                   cseq, nshutdowns, waitq, granted, snapVars, auxVars>>

\* --------------------------------------------------------------- task loop
\* Receiver::recv frees the slot of the envelope it returns: the slot is
\* handed to the earliest suspended sender, if there is one.
ReleaseSlot(i) ==
    IF waitq[i] # <<>>
    THEN /\ granted' = granted \cup {Head(waitq[i])}
         /\ waitq' = [waitq EXCEPT ![i] = Tail(@)]
    ELSE UNCHANGED <<granted, waitq>>

\* rx.recv().await yields Some(message); actor.receive(message) is invoked.
recv_some(i) ==
    /\ task[i] = "recv"
    /\ mailbox[i] # <<>>
    /\ received' = [received EXCEPT ![i] = Append(@, NextEnvelope(mailbox[i]))]
    /\ mailbox' = [mailbox EXCEPT ![i] = AfterRecv(@)]
    /\ ReleaseSlot(i)
    /\ task' = [task EXCEPT ![i] = "receive"]
    /\ UNCHANGED <<actors, dropped, spawned, nerrs, cleanups, accepted, cpc,
                   ctarget, cenv, ctodo, cname, cresult, cseq, nshutdowns,
                   snapVars, auxVars>>

\* Where the loop goes after actor.receive returned Ok(()).
after_receive_ok(i) == task' = [task EXCEPT ![i] = "recv"]

\* A loop that breaks on the first Err of receive.
after_receive_err_break(i) == task' = [task EXCEPT ![i] = "done"]

\* Where the loop goes after actor.receive returned Err(e): the error is
\* printed and the loop continues.
after_receive_err(i) == task' = [task EXCEPT ![i] = "recv"]

\* actor.receive(message).await returns Ok or Err.
receive_return(i) ==
    /\ task[i] = "receive"
    /\ \E r \in {"Ok", "Err"} :
         /\ nerrs' = [nerrs EXCEPT ![i] = IF r = "Err" THEN @ + 1 ELSE @]
         /\ IF r = "Ok" THEN after_receive_ok(i) ELSE after_receive_err(i)
    /\ UNCHANGED <<actors, dropped, spawned, mailbox, received, cleanups,
                   accepted, cpc, ctarget, cenv, ctodo, cname, cresult, cseq,
                   nshutdowns, waitq, granted, snapVars, auxVars>>

\* actor.receive(message).await never returns: the task stays in the call.
receive_hang(i) ==
    /\ task[i] = "receive"
    /\ task' = [task EXCEPT ![i] = "hung"]
    /\ UNCHANGED <<actors, dropped, spawned, mailbox, received, nerrs,
                   cleanups, accepted, cpc, ctarget, cenv, ctodo, cname,
                   cresult, cseq, nshutdowns, waitq, granted, snapVars,
                   auxVars>>

\* actor.receive(message) panics: the task unwinds, dropping the actor and
\* the Receiver together with everything still queued; cleanup is not run.
receive_panic(i) ==
    /\ task[i] = "receive"
    /\ task' = [task EXCEPT ![i] = "panicked"]
    /\ mailbox' = [mailbox EXCEPT ![i] = <<>>]
    /\ UNCHANGED <<actors, dropped, spawned, received, nerrs, cleanups,
                   accepted, cpc, ctarget, cenv, ctodo, cname, cresult, cseq,
                   nshutdowns, waitq, granted, snapVars, auxVars>>

\* A loop that leaves as soon as every Sender is gone, dropping the Receiver
\* with whatever is still queued.
recv_none_discarding(i) ==
    /\ task[i] = "recv"
    /\ ~SenderHeld(i)
    /\ mailbox' = [mailbox EXCEPT ![i] = <<>>]
    /\ task' = [task EXCEPT ![i] = "cleanup"]
    /\ cleanups' = [cleanups EXCEPT ![i] = @ + 1]
    /\ UNCHANGED <<actors, dropped, spawned, received, nerrs,
                   accepted, cpc, ctarget, cenv, ctodo, cname, cresult, cseq,
                   nshutdowns, waitq, granted, snapVars, auxVars>>

\* rx.recv().await yields None (the channel is empty and every Sender is
\* gone): the while loop exits and actor.cleanup() is invoked.
recv_none(i) ==
    /\ task[i] = "recv"
    /\ mailbox[i] = <<>>
    /\ ~SenderHeld(i)
    /\ task' = [task EXCEPT ![i] = "cleanup"]
    /\ cleanups' = [cleanups EXCEPT ![i] = @ + 1]
    /\ UNCHANGED <<actors, dropped, spawned, mailbox, received, nerrs,
                   accepted, cpc, ctarget, cenv, ctodo, cname, cresult, cseq,
                   nshutdowns, waitq, granted, snapVars, auxVars>>

\* actor.cleanup().await returns: the task's future completes.
cleanup_return(i) ==
    /\ task[i] = "cleanup"
    /\ task' = [task EXCEPT ![i] = "done"]
    /\ UNCHANGED <<actors, dropped, spawned, mailbox, received, nerrs,
                   cleanups, accepted, cpc, ctarget, cenv, ctodo, cname,
                   cresult, cseq, nshutdowns, waitq, granted, snapVars,
                   auxVars>>

\* Everything a spawned task does on its own.
TaskStep(i) ==
    \/ recv_some(i)
    \/ receive_return(i)
    \/ recv_none(i)
    \/ cleanup_return(i)

\* The steps by which a caller's pending call continues once it is woken.
CallStep(c) ==
    \/ send_resume(c)
    \/ shutdown_step(c)
    \/ shutdown_resume(c)
    \/ shutdown_return(c)

SysNext ==
    \/ \E n \in Names : add_actor(n)
    \/ drop_system
    \/ \E c \in Callers, n \in Names : send_message(c, n)
    \/ \E c \in Callers : send_resume(c)
    \/ \E c \in Callers : shutdown(c)
    \/ \E c \in Callers : shutdown_step(c)
    \/ \E c \in Callers : shutdown_resume(c)
    \/ \E c \in Callers : shutdown_return(c)
    \/ \E i \in TaskIds : recv_some(i)
    \/ \E i \in TaskIds : receive_return(i)
    \/ \E i \in TaskIds : receive_hang(i)
    \/ \E i \in TaskIds : receive_panic(i)
    \/ \E i \in TaskIds : recv_none(i)
    \/ \E i \in TaskIds : cleanup_return(i)

\* The actor system alone; the snapshot half stays idle.  Any caller may
\* call anything, actors are registered (and re-registered) at any time.
SysSpec == SysInit /\ [][SysNext]_vars

\* The usage of the crate's example and test: the actors are registered
\* first, then one caller sends messages and another one shuts the system
\* down, and finally the system may be dropped.
Producer == "c1"
Controller == "c2"

RunInit ==
    /\ actors = [n \in Names |-> IF n = "a" THEN 1 ELSE 2]
    /\ dropped = FALSE
    /\ spawned = 2
    /\ mailbox = [i \in TaskIds |-> <<>>]
    /\ task = [i \in TaskIds |-> IF i <= 2 THEN "recv" ELSE "unspawned"]
    /\ received = [i \in TaskIds |-> <<>>]
    /\ nerrs = [i \in TaskIds |-> 0]
    /\ cleanups = [i \in TaskIds |-> 0]
    /\ accepted = [i \in TaskIds |-> <<>>]
    /\ waitq = [i \in TaskIds |-> <<>>]
    /\ granted = {}
    /\ cpc = [c \in Callers |-> "idle"]
    /\ ctarget = [c \in Callers |-> NoTask]
    /\ cenv = [c \in Callers |-> Shutdown]
    /\ ctodo = [c \in Callers |-> {}]
    /\ cname = [c \in Callers |-> "-"]
    /\ cresult = [c \in Callers |-> "none"]
    /\ cseq = [c \in Callers |-> 0]
    /\ nshutdowns = 0
    /\ SnapIdle
    /\ AuxIdle

RunNext ==
    \/ \E n \in Names : send_message(Producer, n)
    \/ send_resume(Producer)
    \/ shutdown(Controller)
    \/ shutdown_step(Controller)
    \/ shutdown_resume(Controller)
    \/ shutdown_return(Controller)
    \/ drop_system
    \/ \E i \in TaskIds : recv_some(i)
    \/ \E i \in TaskIds : receive_return(i)
    \/ \E i \in TaskIds : receive_hang(i)
    \/ \E i \in TaskIds : receive_panic(i)
    \/ \E i \in TaskIds : recv_none(i)
    \/ \E i \in TaskIds : cleanup_return(i)

RunSpec == RunInit /\ [][RunNext]_vars

\* The tokio scheduler polls every spawned task and every pending call that
\* is ready.  What callers choose to call, and whether a receive hangs or
\* panics, is not fair.
RunFairSpec ==
    /\ RunSpec
    /\ \A i \in TaskIds : WF_vars(TaskStep(i))
    /\ \A c \in Callers : WF_vars(CallStep(c))

\* One actor is registered under "a"; while the producer sends and the
\* controller shuts down, a name is registered (or registered again), and
\* the system may be dropped.
TeardownInit ==
    /\ actors = [n \in Names |-> IF n = "a" THEN 1 ELSE NoTask]
    /\ dropped = FALSE
    /\ spawned = 1
    /\ mailbox = [i \in TaskIds |-> <<>>]
    /\ task = [i \in TaskIds |-> IF i = 1 THEN "recv" ELSE "unspawned"]
    /\ received = [i \in TaskIds |-> <<>>]
    /\ nerrs = [i \in TaskIds |-> 0]
    /\ cleanups = [i \in TaskIds |-> 0]
    /\ accepted = [i \in TaskIds |-> <<>>]
    /\ waitq = [i \in TaskIds |-> <<>>]
    /\ granted = {}
    /\ cpc = [c \in Callers |-> "idle"]
    /\ ctarget = [c \in Callers |-> NoTask]
    /\ cenv = [c \in Callers |-> Shutdown]
    /\ ctodo = [c \in Callers |-> {}]
    /\ cname = [c \in Callers |-> "-"]
    /\ cresult = [c \in Callers |-> "none"]
    /\ cseq = [c \in Callers |-> 0]
    /\ nshutdowns = 0
    /\ SnapIdle
    /\ AuxIdle

TeardownNext ==
    \/ \E n \in Names : add_actor(n)
    \/ drop_system
    \/ \E n \in Names : send_message(Producer, n)
    \/ send_resume(Producer)
    \/ shutdown(Controller)
    \/ shutdown_step(Controller)
    \/ shutdown_resume(Controller)
    \/ shutdown_return(Controller)
    \/ \E i \in TaskIds : recv_some(i)
    \/ \E i \in TaskIds : receive_return(i)
    \/ \E i \in TaskIds : receive_hang(i)
    \/ \E i \in TaskIds : receive_panic(i)
    \/ \E i \in TaskIds : recv_none(i)
    \/ \E i \in TaskIds : cleanup_return(i)

TeardownSpec == TeardownInit /\ [][TeardownNext]_vars

\* As in RunFairSpec: spawned tasks and woken calls are polled.
TeardownFairSpec ==
    /\ TeardownSpec
    /\ \A i \in TaskIds : WF_vars(TaskStep(i))
    /\ \A c \in Callers : WF_vars(CallStep(c))

\* ================================================================ snapshot
\* Strings are sequences of characters over a two-letter alphabet that
\* contains the separator.
Chars == {"a", ":"}
Sep == ":"

\* All strings of at most n characters.
StringsUpTo(n) == UNION {[1..k -> Chars] : k \in 0..n}

\* The actor_ids and the state values the runs draw from.
Ids == StringsUpTo(MaxIdLen)
States == StringsUpTo(MaxStateLen)

\* format!("{}:{}", self.actor_id, self.state)
Format(id, st) == id \o <<Sep>> \o st

\* Position of the first separator of a string (0: it has none).
FirstSep(data) ==
    IF \E k \in 1..Len(data) : data[k] = Sep
    THEN CHOOSE k \in 1..Len(data) :
            data[k] = Sep /\ \A j \in 1..(k - 1) : data[j] # Sep
    ELSE 0

\* data.splitn(2, ':').collect(): the whole string if it has no separator,
\* else what precedes the first separator and what follows it.
SplitN2(data) ==
    LET k == FirstSep(data) IN
    IF k = 0 THEN <<data>>
    ELSE <<SubSeq(data, 1, k - 1), SubSeq(data, k + 1, Len(data))>>

\* A load_state that takes the state of any well-formed data.
PrefixIgnored(parts, id) == Len(parts) = 2

\* The condition of load_state: parts.len() == 2 && parts[0] == self.actor_id
PrefixMatches(parts, id) == Len(parts) = 2 /\ parts[1] = id

\* The instance is mutably borrowed by its running start_snapshot_task call.
Borrowed(x) == ptask[x] = "select"

\* FileBackend::write: File::create truncates the file, write_all fills it.
\* `how` is what the file system makes of it: "ok", "create_failed" (the
\* file is left as it was) or "write_failed" (the file is left with some
\* proper prefix of the data).  The contents the file can have afterwards:
FilesAfterWrite(data, how) ==
    CASE how = "ok" -> {data}
      [] how = "create_failed" -> {file}
      [] how = "write_failed" -> {SubSeq(data, 1, n) : n \in 0..(Len(data) - 1)}

WriteOutcomes == {"ok", "create_failed", "write_failed"}

\* The body of save_state for instance x: state, result and file after it.
SaveEffect(x, how) ==
    /\ file' \in FilesAfterWrite(Format(actor_id[x], state[x]), how)
    /\ saved' = CASE how = "ok" -> <<actor_id[x], state[x]>>
                  [] how = "create_failed" -> saved
                  [] how = "write_failed" -> <<>>

\* SnapshotActor::set_state
set_state(x, s) ==
    /\ ~Borrowed(x)
    /\ state' = [state EXCEPT ![x] = s]
    /\ UNCHANGED <<actor_id, chan, file, version, ptask, task_rx, tick_due,
                   elapsed, saved, sres, tfail, nsaves, sysVars, auxVars>>

\* SnapshotActor::save_state called directly: a backend error is returned.
save_state(x, how) ==
    /\ ~Borrowed(x)
    /\ SaveEffect(x, how)
    /\ sres' = <<x, "save", IF how = "ok" THEN "Ok" ELSE "Err">>
    /\ UNCHANGED <<state, actor_id, chan, version, ptask, task_rx, tick_due,
                   elapsed, tfail, nsaves, sysVars, auxVars>>

\* SnapshotActor::load_state; readOk says whether FileBackend::read works.
load_state(x, readOk) ==
    /\ ~Borrowed(x)
    /\ IF readOk
       THEN /\ state' = [state EXCEPT ![x] =
                    IF PrefixMatches(SplitN2(file), actor_id[x])
                    THEN SplitN2(file)[2] ELSE @]
            /\ sres' = <<x, "load", "Ok">>
       ELSE /\ sres' = <<x, "load", "Err">>
            /\ UNCHANGED state
    /\ UNCHANGED <<actor_id, chan, file, version, ptask, task_rx, tick_due,
                   elapsed, saved, tfail, nsaves, sysVars, auxVars>>

\* actor.clone(): "other" becomes a copy of "orig"; the copy shares the
\* watch channel and the file.
clone_actor ==
    /\ ~Borrowed("orig")
    /\ ~Borrowed("other")
    /\ chan["other"] # chan["orig"]
    /\ state' = [state EXCEPT !["other"] = state["orig"]]
    /\ actor_id' = [actor_id EXCEPT !["other"] = actor_id["orig"]]
    /\ chan' = [chan EXCEPT !["other"] = chan["orig"]]
    /\ ptask' = [ptask EXCEPT !["other"] = "none"]
    /\ UNCHANGED <<file, version, task_rx, tick_due, elapsed, saved, sres,
                   tfail, nsaves, sysVars, auxVars>>

\* watch::channel(()): the version a fresh Receiver has seen; self.shutdown_rx
\* never observes a change, and a clone of it has seen what it has seen.
SeenAtCreation == 0

\* A start_snapshot_task whose receiver is made by shutdown_tx.subscribe():
\* it has seen every value sent so far.
start_snapshot_task_subscribe(x) ==
    /\ ptask[x] \in {"none", "stopped"}
    /\ ptask' = [ptask EXCEPT ![x] = "select"]
    /\ task_rx' = [task_rx EXCEPT ![x] = version[chan[x]]]
    /\ tick_due' = [tick_due EXCEPT ![x] = TRUE]
    /\ elapsed' = [elapsed EXCEPT ![x] = 0]
    /\ tfail' = [tfail EXCEPT ![x] = "no"]
    /\ nsaves' = [nsaves EXCEPT ![x] = 0]
    /\ UNCHANGED <<state, actor_id, chan, file, version, saved, sres, sysVars,
                   auxVars>>

\* start_snapshot_task is entered: the interval's first tick is ready at
\* once, and the task's receiver is a clone of self.shutdown_rx.
start_snapshot_task(x) ==
    /\ ptask[x] \in {"none", "stopped"}
    /\ ptask' = [ptask EXCEPT ![x] = "select"]
    /\ task_rx' = [task_rx EXCEPT ![x] = SeenAtCreation]
    /\ tick_due' = [tick_due EXCEPT ![x] = TRUE]
    /\ elapsed' = [elapsed EXCEPT ![x] = 0]
    /\ tfail' = [tfail EXCEPT ![x] = "no"]
    /\ nsaves' = [nsaves EXCEPT ![x] = 0]
    /\ UNCHANGED <<state, actor_id, chan, file, version, saved, sres, sysVars,
                   auxVars>>

\* A task that looks at the shutdown signal only once a period has elapsed.
ShutdownReadyAfterPeriod(x) == version[chan[x]] # task_rx[x] /\ elapsed[x] > 0

\* shutdown_rx.changed() is ready: a value was sent that the task's receiver
\* has not seen.
ShutdownReady(x) == version[chan[x]] # task_rx[x]

\* interval.tick() is ready.
TickReady(x) == tick_due[x]

\* What the saves of the periodic task have come to after one more.
AfterSave(t, how) ==
    CASE how # "ok" -> "failed"
      [] how = "ok" /\ t = "no" -> "no"
      [] OTHER -> "saved_after"

\* A periodic task that gives up on the first save that fails.
snapshot_tick_fatal(x, how) ==
    /\ ptask[x] = "select"
    /\ TickReady(x)
    /\ tick_due' = [tick_due EXCEPT ![x] = FALSE]
    /\ SaveEffect(x, how)
    /\ tfail' = [tfail EXCEPT ![x] = AfterSave(@, how)]
    /\ nsaves' = [nsaves EXCEPT ![x] = @ + 1]
    /\ ptask' = [ptask EXCEPT ![x] = IF how = "ok" THEN @ ELSE "stopped"]
    /\ UNCHANGED <<state, actor_id, chan, version, task_rx, elapsed, sres,
                   sysVars, auxVars>>

\* A periodic task of a clone whose state is shared with the original
\* (as behind an Arc): the tick saves what the original holds.
snapshot_tick_shared_state(x, how) ==
    /\ ptask[x] = "select"
    /\ TickReady(x)
    /\ tick_due' = [tick_due EXCEPT ![x] = FALSE]
    /\ SaveEffect("orig", how)
    /\ tfail' = [tfail EXCEPT ![x] = AfterSave(@, how)]
    /\ nsaves' = [nsaves EXCEPT ![x] = @ + 1]
    /\ UNCHANGED <<state, actor_id, chan, version, ptask, task_rx, elapsed,
                   sres, sysVars, auxVars>>

\* The tick branch of the select: save_state, an error is only printed.
snapshot_tick(x, how) ==
    /\ ptask[x] = "select"
    /\ TickReady(x)
    /\ tick_due' = [tick_due EXCEPT ![x] = FALSE]
    /\ SaveEffect(x, how)
    /\ tfail' = [tfail EXCEPT ![x] = AfterSave(@, how)]
    /\ nsaves' = [nsaves EXCEPT ![x] = @ + 1]
    /\ UNCHANGED <<state, actor_id, chan, version, ptask, task_rx, elapsed,
                   sres, sysVars, auxVars>>

\* The shutdown branch of the select: break; start_snapshot_task returns.
snapshot_stop(x) ==
    /\ ptask[x] = "select"
    /\ ShutdownReady(x)
    /\ ptask' = [ptask EXCEPT ![x] = "stopped"]
    /\ task_rx' = [task_rx EXCEPT ![x] = version[chan[x]]]
    /\ UNCHANGED <<state, actor_id, chan, file, version, tick_due, elapsed,
                   saved, sres, tfail, nsaves, sysVars, auxVars>>

\* One period of the interval (60 s) passes for the running task of x.
interval_elapses(x) ==
    /\ ptask[x] = "select"
    /\ elapsed[x] < MaxIntervals
    /\ elapsed' = [elapsed EXCEPT ![x] = @ + 1]
    /\ tick_due' = [tick_due EXCEPT ![x] = TRUE]
    /\ UNCHANGED <<state, actor_id, chan, file, version, ptask, task_rx,
                   saved, sres, tfail, nsaves, sysVars, auxVars>>

\* A shutdown() that flips a flag: a second call takes the signal back.
snapshot_shutdown_toggle(x) ==
    /\ ~Borrowed(x)
    /\ version[chan[x]] < MaxSignals
    /\ version' = [version EXCEPT ![chan[x]] =
                        IF @ = SeenAtCreation THEN 1 ELSE SeenAtCreation]
    /\ UNCHANGED <<state, actor_id, chan, file, ptask, task_rx, tick_due,
                   elapsed, saved, sres, tfail, nsaves, sysVars, auxVars>>

\* SnapshotActor::shutdown(&self): self.shutdown_tx.send(()).
snapshot_shutdown(x) ==
    /\ ~Borrowed(x)
    /\ version[chan[x]] < MaxSignals
    /\ version' = [version EXCEPT ![chan[x]] = @ + 1]
    /\ UNCHANGED <<state, actor_id, chan, file, ptask, task_rx, tick_due,
                   elapsed, saved, sres, tfail, nsaves, sysVars, auxVars>>

\* ---- save_state / load_state over every pair of actor_ids
\* FileBackend::new has created the (empty) file; SnapshotActor::new has set
\* state to String::new() and made a watch channel per instance.
DataInit ==
    /\ state = [x \in Insts |-> <<>>]
    /\ actor_id \in [Insts -> Ids]
    /\ chan = [x \in Insts |-> IF x = "orig" THEN 1 ELSE 2]
    /\ file = <<>>
    /\ version = [ch \in 1..2 |-> 0]
    /\ ptask = [x \in Insts |-> "none"]
    /\ task_rx = [x \in Insts |-> 0]
    /\ tick_due = [x \in Insts |-> FALSE]
    /\ elapsed = [x \in Insts |-> 0]
    /\ saved = <<>>
    /\ tfail = [x \in Insts |-> "no"]
    /\ nsaves = [x \in Insts |-> 0]
    /\ sres = <<>>
    /\ SysIdle
    /\ AuxIdle

DataNext ==
    \/ \E x \in Insts, s \in States : set_state(x, s)
    \/ \E x \in Insts, how \in WriteOutcomes : save_state(x, how)
    \/ \E x \in Insts, readOk \in BOOLEAN : load_state(x, readOk)
    \/ clone_actor

DataSpec == DataInit /\ [][DataNext]_vars

\* ---- the periodic task
\* The state values set_state is called with in the runs of the task.
TaskStates == {<<"a">>}

\* "orig" is made with the actor_id "a", and "other" is a clone of it taken
\* at once: the two share the watch channel.
TaskInit ==
    /\ state = [x \in Insts |-> <<>>]
    /\ actor_id = [x \in Insts |-> <<"a">>]
    /\ chan = [x \in Insts |-> 1]
    /\ file = <<>>
    /\ version = [ch \in 1..2 |-> 0]
    /\ ptask = [x \in Insts |-> "none"]
    /\ task_rx = [x \in Insts |-> 0]
    /\ tick_due = [x \in Insts |-> FALSE]
    /\ elapsed = [x \in Insts |-> 0]
    /\ saved = <<>>
    /\ tfail = [x \in Insts |-> "no"]
    /\ nsaves = [x \in Insts |-> 0]
    /\ sres = <<>>
    /\ SysIdle
    /\ AuxIdle

TaskNext ==
    \/ \E x \in Insts, s \in TaskStates : set_state(x, s)
    \/ \E x \in Insts : save_state(x, "ok")
    \/ \E x \in Insts : load_state(x, TRUE)
    \/ \E x \in Insts : start_snapshot_task(x)
    \/ \E x \in Insts, how \in WriteOutcomes : snapshot_tick(x, how)
    \/ \E x \in Insts : snapshot_stop(x)
    \/ \E x \in Insts : interval_elapses(x)
    \/ \E x \in Insts : snapshot_shutdown(x)

TaskSpec == TaskInit /\ [][TaskNext]_vars

\* The runtime polls a running snapshot task whenever a branch of its select
\* is ready, and the select picks among the ready branches at random, so a
\* branch that stays ready is eventually taken.  Time is not required to
\* pass, and nobody is required to call anything.
TaskFairSpec ==
    /\ TaskSpec
    /\ \A x \in Insts : WF_vars(snapshot_stop(x))
    /\ \A x \in Insts : WF_vars(\E how \in WriteOutcomes : snapshot_tick(x, how))

\* ---- the periodic task after a shutdown
\* As TaskInit, and shutdown() has been called once (on either instance)
\* before any start_snapshot_task.
SignalledInit ==
    /\ state = [x \in Insts |-> <<>>]
    /\ actor_id = [x \in Insts |-> <<"a">>]
    /\ chan = [x \in Insts |-> 1]
    /\ file = <<>>
    /\ version = [ch \in 1..2 |-> IF ch = 1 THEN 1 ELSE 0]
    /\ ptask = [x \in Insts |-> "none"]
    /\ task_rx = [x \in Insts |-> 0]
    /\ tick_due = [x \in Insts |-> FALSE]
    /\ elapsed = [x \in Insts |-> 0]
    /\ saved = <<>>
    /\ tfail = [x \in Insts |-> "no"]
    /\ nsaves = [x \in Insts |-> 0]
    /\ sres = <<>>
    /\ SysIdle
    /\ AuxIdle

SignalledNext ==
    \/ \E x \in Insts, s \in TaskStates : set_state(x, s)
    \/ \E x \in Insts : save_state(x, "ok")
    \/ \E x \in Insts : load_state(x, TRUE)
    \/ \E x \in Insts : start_snapshot_task(x)
    \/ \E x \in Insts, how \in WriteOutcomes : snapshot_tick(x, how)
    \/ \E x \in Insts : snapshot_stop(x)
    \/ \E x \in Insts : interval_elapses(x)
    \/ \E x \in Insts : snapshot_shutdown(x)

SignalledSpec == SignalledInit /\ [][SignalledNext]_vars

\* Fair as TaskFairSpec.
SignalledFairSpec ==
    /\ SignalledSpec
    /\ \A x \in Insts : WF_vars(snapshot_stop(x))
    /\ \A x \in Insts : WF_vars(\E how \in WriteOutcomes : snapshot_tick(x, how))

\* ============================================== the documented usage
\* The example of the module documentation of snapshot_actor.rs, from the
\* spawn of the background task on: "orig" is the SnapshotActor inside
\* Arc<Mutex<..>>; `lock` is the mutex.  A MutexGuard made by
\* `actor.lock().await` inside a statement lives to the end of the statement.

\* Background task: actor_clone.lock().await ...
doc_bg_lock ==
    /\ bpc = "spawned"
    /\ lock = "free"
    /\ lock' = "bg"
    /\ bpc' = "locked"
    /\ UNCHANGED <<mpc, backVars, supVars, snapVars, sysVars>>

\* ... .start_snapshot_task() is entered, with the guard held.
doc_bg_start ==
    /\ bpc = "locked"
    /\ ptask["orig"] = "none"
    /\ start_snapshot_task("orig")

\* ... .await returned: the statement ends, the guard is dropped and the
\* spawned task completes.
doc_bg_unlock ==
    /\ bpc = "locked"
    /\ ptask["orig"] = "stopped"
    /\ lock' = "free"
    /\ bpc' = "finished"
    /\ UNCHANGED <<mpc, backVars, supVars, snapVars, sysVars>>

\* Main task, after its sleep: actor.lock().await ...
doc_main_lock ==
    /\ mpc = "sleep"
    /\ lock = "free"
    /\ lock' = "main"
    /\ mpc' = "locked"
    /\ UNCHANGED <<bpc, backVars, supVars, snapVars, sysVars>>

\* ... .shutdown() on the locked actor.
doc_main_shutdown ==
    /\ mpc = "locked"
    /\ version[chan["orig"]] = SeenAtCreation
    /\ snapshot_shutdown("orig")

\* The statement ends: the guard is dropped; next is snapshot_task.await.
doc_main_unlock ==
    /\ mpc = "locked"
    /\ version[chan["orig"]] # SeenAtCreation
    /\ lock' = "free"
    /\ mpc' = "join"
    /\ UNCHANGED <<bpc, backVars, supVars, snapVars, sysVars>>

\* snapshot_task.await.unwrap() returns once the spawned task has completed.
doc_main_join ==
    /\ mpc = "join"
    /\ bpc = "finished"
    /\ mpc' = "joined"
    /\ UNCHANGED <<lock, bpc, backVars, supVars, snapVars, sysVars>>

\* After `actor.lock().await.set_state(..)`: the actor "actor1" holds some
\* state, the file is as FileBackend::new made it, the background task has
\* been spawned and the main task sleeps.
DocInit ==
    /\ state \in [Insts -> States]
    /\ state["other"] = <<>>
    /\ actor_id = [x \in Insts |-> <<"a">>]
    /\ chan = [x \in Insts |-> IF x = "orig" THEN 1 ELSE 2]
    /\ file = <<>>
    /\ version = [ch \in 1..2 |-> 0]
    /\ ptask = [x \in Insts |-> "none"]
    /\ task_rx = [x \in Insts |-> 0]
    /\ tick_due = [x \in Insts |-> FALSE]
    /\ elapsed = [x \in Insts |-> 0]
    /\ saved = <<>>
    /\ tfail = [x \in Insts |-> "no"]
    /\ nsaves = [x \in Insts |-> 0]
    /\ sres = <<>>
    /\ SysIdle
    /\ lock = "free"
    /\ mpc = "sleep"
    /\ bpc = "spawned"
    /\ BackIdle
    /\ SupIdle

DocNext ==
    \/ doc_bg_lock
    \/ doc_bg_start
    \/ \E how \in WriteOutcomes : snapshot_tick("orig", how)
    \/ interval_elapses("orig")
    \/ snapshot_stop("orig")
    \/ doc_bg_unlock
    \/ doc_main_lock
    \/ doc_main_shutdown
    \/ doc_main_unlock
    \/ doc_main_join

DocSpec == DocInit /\ [][DocNext]_vars

\* Both tasks are scheduled whenever they can take a step, and a ready
\* branch of the select is eventually taken.  Time need not pass.
DocFairSpec ==
    /\ DocSpec
    /\ WF_vars(doc_bg_lock)
    /\ WF_vars(doc_bg_start)
    /\ WF_vars(\E how \in WriteOutcomes : snapshot_tick("orig", how))
    /\ WF_vars(snapshot_stop("orig"))
    /\ WF_vars(doc_bg_unlock)
    /\ WF_vars(doc_main_lock)
    /\ WF_vars(doc_main_shutdown)
    /\ WF_vars(doc_main_unlock)
    /\ WF_vars(doc_main_join)

\* ================================================= DataActor on a file
\* The strings handed to the DataActor.
Payloads == StringsUpTo(MaxStateLen)

\* A write that appends to the file instead of replacing its content.
StoreAfterAppend(old, data, how) ==
    CASE how = "ok" -> {old \o data}
      [] how = "create_failed" -> {old}
      [] how = "write_failed" -> {SubSeq(data, 1, n) : n \in 0..(Len(data) - 1)}

\* FileBackend::write on a file holding `old` (nothing, if the file does
\* not exist): File::create makes or truncates the file, write_all fills it.
\* The contents it can have afterwards (see FilesAfterWrite).
StoreAfterWrite(old, data, how) ==
    CASE how = "ok" -> {data}
      [] how = "create_failed" -> {old}
      [] how = "write_failed" -> {SubSeq(data, 1, n) : n \in 0..(Len(data) - 1)}

\* The successful writes, latest first, at most two of them.
Remember(data) == IF dlast = <<>> THEN <<data>> ELSE <<data, dlast[1]>>

\* self.backend.write(data).await
BackendWrite(data, how) ==
    /\ dfile' \in StoreAfterWrite(dfile, data, how)
    /\ dexists' = (dexists \/ how # "create_failed")
    /\ dlast' = IF how = "ok" THEN Remember(data) ELSE dlast
    /\ dintact' = CASE how = "ok" -> TRUE
                    [] how = "create_failed" -> dintact
                    [] how = "write_failed" -> FALSE

\* self.backend.cleanup().await: fs::remove_file; it fails when the file is
\* not there, or when the file system refuses (rmOk = FALSE).
CleanupWorks(rmOk) == dexists /\ rmOk

BackendCleanup(rmOk) ==
    IF CleanupWorks(rmOk)
    THEN /\ dexists' = FALSE
         /\ dfile' = <<>>
         /\ dintact' = FALSE
         /\ UNCHANGED dlast
    ELSE UNCHANGED <<dexists, dfile, dlast, dintact>>

Result(ok) == IF ok THEN "Ok" ELSE "Err"

\* DataActor::write_to_backend
write_to_backend(data, how) ==
    /\ BackendWrite(data, how)
    /\ dres' = <<"write_to_backend", Result(how = "ok")>>
    /\ UNCHANGED <<docVars, supVars, snapVars, sysVars>>

\* DataActor::read_from_backend: File::open and read_to_string.
read_from_backend(readOk) ==
    /\ dres' = IF dexists /\ readOk
               THEN <<"read_from_backend", "Ok", dfile>>
               ELSE <<"read_from_backend", "Err", <<>> >>
    /\ UNCHANGED <<dexists, dfile, dlast, dintact, docVars, supVars,
                   snapVars, sysVars>>

\* DataActor::cleanup_backend
cleanup_backend(rmOk) ==
    /\ BackendCleanup(rmOk)
    /\ dres' = <<"cleanup_backend", Result(CleanupWorks(rmOk))>>
    /\ UNCHANGED <<docVars, supVars, snapVars, sysVars>>

\* DataActor::receive(Message::Regular(data)): self.backend.write(&data)?
data_receive_regular(data, how) ==
    /\ BackendWrite(data, how)
    /\ dres' = <<"receive_regular", Result(how = "ok")>>
    /\ UNCHANGED <<docVars, supVars, snapVars, sysVars>>

\* DataActor::receive(Message::Shutdown): self.backend.cleanup().await?
data_receive_shutdown(rmOk) ==
    /\ BackendCleanup(rmOk)
    /\ dres' = <<"receive_shutdown", Result(CleanupWorks(rmOk))>>
    /\ UNCHANGED <<docVars, supVars, snapVars, sysVars>>

\* DataActor::cleanup (of the Actor trait): the Err of backend.cleanup() is
\* printed; the method returns ().
data_cleanup(rmOk) ==
    /\ BackendCleanup(rmOk)
    /\ dres' = <<"cleanup", "Ok">>
    /\ UNCHANGED <<docVars, supVars, snapVars, sysVars>>

\* FileBackend::new(path) has created the empty file; DataActor::new.
BackInit ==
    /\ dexists = TRUE
    /\ dfile = <<>>
    /\ dlast = <<>>
    /\ dintact = TRUE
    /\ dres = <<>>
    /\ SysIdle
    /\ SnapIdle
    /\ DocIdle
    /\ SupIdle

BackNext ==
    \/ \E d \in Payloads, how \in WriteOutcomes : write_to_backend(d, how)
    \/ \E readOk \in BOOLEAN : read_from_backend(readOk)
    \/ \E rmOk \in BOOLEAN : cleanup_backend(rmOk)
    \/ \E d \in Payloads, how \in WriteOutcomes : data_receive_regular(d, how)
    \/ \E rmOk \in BOOLEAN : data_receive_shutdown(rmOk)
    \/ \E rmOk \in BOOLEAN : data_cleanup(rmOk)

BackSpec == BackInit /\ [][BackNext]_vars

\* ============================================================ Supervisor
\* enum SupervisionStrategy
Strategies == {"Restart", "Ignore", "Escalate"}

\* The error descriptions reported to the Supervisor.
ErrorTexts == {"e1", "e2"}

\* The line handle_failure prints in the match arm of a strategy.
Printed(st, actor_name, error) ==
    CASE st = "Restart" -> <<"Restarting actor", actor_name, error>>
      [] st = "Ignore" -> <<"Ignoring error for actor", actor_name, error>>
      [] st = "Escalate" -> <<"Escalating error for actor", actor_name, error>>

\* Supervisor::handle_failure(&self, actor_name, error): the arm of the
\* strategy prints its line; the function returns ().
handle_failure(actor_name, error) ==
    /\ Len(hlog) < MaxReports
    /\ hlog' = Append(hlog, Printed(strategy, actor_name, error))
    /\ hres' = "()"
    /\ UNCHANGED <<strategy, docVars, backVars, snapVars, sysVars>>

\* Supervisor::new(strategy)
SupInit ==
    /\ strategy \in Strategies
    /\ hlog = <<>>
    /\ hres = "none"
    /\ SysIdle
    /\ SnapIdle
    /\ DocIdle
    /\ BackIdle

SupNext == \E n \in Names, e \in ErrorTexts : handle_failure(n, e)

SupSpec == SupInit /\ [][SupNext]_vars

\* ------------------------------------------------------------------ claims
IsPrefix(p, q) == Len(p) <= Len(q) /\ SubSeq(q, 1, Len(p)) = p

\* The Regular envelopes of caller c within a sequence of envelopes.
RegularFrom(q, c) ==
    SelectSeq(q, LAMBDA e : e.kind = "Regular" /\ e.from = c)

\* The task can no longer run its loop because a receive call did not return.
Stuck(i) == task[i] \in {"hung", "panicked"}

\* C1 (order): what receive was invoked with, restricted to the Regular
\* messages of one caller, is at every moment a prefix of what that caller
\* sent successfully to that task: nothing duplicated, reordered or invented.
C1_InOrder ==
    \A i \in TaskIds, c \in Callers :
        IsPrefix(RegularFrom(received[i], c), RegularFrom(accepted[i], c))

\* C1 (delivery): again and again every Regular message the producer has
\* sent successfully to a task has been passed to receive, unless a receive
\* call of that task does not return.  (What was passed to receive only
\* grows, so each such message is eventually passed.)
C1_Delivered ==
    \A i \in TaskIds :
        []<>(\/ Stuck(i)
             \/ RegularFrom(received[i], Producer)
                    = RegularFrom(accepted[i], Producer))

\* C1: every Regular message of a single caller whose send returned Ok is
\* passed to the actor's receive exactly once and in the order sent.
C1_FifoPerSender == []C1_InOrder /\ C1_Delivered

\* C1 witness: both messages the producer sent to one actor have been passed
\* to its receive, in the order sent, with a foreign envelope in between.
C1_Witness ==
    \E i \in TaskIds :
        /\ received[i] = <<Regular(Producer, 1), Shutdown, Regular(Producer, 2)>>
        /\ task[i] = "recv"

\* C2: once a task has taken a Shutdown envelope off its mailbox, nothing
\* more is passed to its receive: a Shutdown is the last entry of `received`.
C2_ShutdownTerminal ==
    \A i \in TaskIds :
        \A k \in 1..Len(received[i]) :
            received[i][k].kind = "Shutdown" => k = Len(received[i])

\* The receive call that was given a Shutdown envelope has returned.
ProcessedShutdown(i) ==
    \E k \in 1..Len(received[i]) :
        /\ received[i][k].kind = "Shutdown"
        /\ k < Len(received[i]) \/ task[i] \in {"recv", "cleanup", "done"}

\* C3: cleanup is invoked at most once in a task's lifetime, and once a
\* Shutdown envelope has been processed cleanup eventually runs.
C3_CleanupOnce ==
    /\ [](\A i \in TaskIds : cleanups[i] <= 1)
    /\ \A i \in TaskIds : ProcessedShutdown(i) ~> (cleanups[i] = 1)

\* A shutdown() call is in progress that has task i among the entries it
\* visits (still to visit, or being visited).
ShutdownCovers(i) ==
    \E c \in Callers :
        /\ cpc[c] \in {"shutdown", "shutdown_wait"}
        /\ \/ \E n \in ctodo[c] : actors[n] = i
           \/ ctarget[c] = i

\* C4: every registered actor that keeps making progress eventually receives
\* the Shutdown of a shutdown() call, whatever the condition of the others.
C4_ShutdownReachesAll ==
    \A i \in TaskIds :
        ShutdownCovers(i)
            ~> (Stuck(i) \/ \E k \in 1..Len(received[i]) :
                                received[i][k].kind = "Shutdown")

\* C5: a send_message call naming an actor that is not in the registry
\* returns "not found", enqueues nothing, spawns nothing and leaves the
\* registry as it was.
C5_NotFound ==
    [][\A c \in Callers :
         (cseq'[c] # cseq[c] /\ actors[cname'[c]] = NoTask)
            => /\ cresult'[c] = "NotFound"
               /\ cpc'[c] = "idle"
               /\ mailbox' = mailbox
               /\ accepted' = accepted
               /\ spawned' = spawned
               /\ task' = task
               /\ actors' = actors]_vars

\* C5 witness: a call on an unregistered name has returned "not found" while
\* another actor is registered and running.
C5_Witness ==
    \E c \in Callers :
        /\ cresult[c] = "NotFound"
        /\ actors[cname[c]] = NoTask
        /\ \E n \in Names : actors[n] # NoTask /\ task[actors[n]] = "recv"

\* C6: a receive that returns Err leaves the task in its loop, triggers no
\* cleanup and leaves the queue as it is; and after an error everything that
\* was accepted, the envelopes queued behind the failing one included, is
\* still passed to receive in the order accepted.
C6_ErrKeepsLoop ==
    /\ [][\A i \in TaskIds :
            nerrs'[i] # nerrs[i]
                => /\ task'[i] = "recv"
                   /\ cleanups'[i] = cleanups[i]
                   /\ mailbox'[i] = mailbox[i]]_vars
    /\ [](\A i \in TaskIds : nerrs[i] > 0 /\ ~Stuck(i) =>
            IsPrefix(received[i], accepted[i]))
    /\ \A i \in TaskIds :
         (nerrs[i] > 0) ~> (Stuck(i) \/ received[i] = accepted[i])

\* C6 witness: every earlier receive of the task returned Err, and the task
\* has been given the next envelope.
C6_Witness ==
    \E i \in TaskIds :
        /\ nerrs[i] = 2
        /\ Len(received[i]) = 3
        /\ task[i] = "receive"

\* C7 (capacity): a mailbox never holds more envelopes than its capacity,
\* not even counting the slots already handed to suspended senders, and
\* nothing that was accepted is lost while the task is alive.
C7_Bounded ==
    \A i \in TaskIds :
        /\ Len(mailbox[i]) <= MailboxCap
        /\ Taken(i) <= MailboxCap
        /\ task[i] # "panicked" => accepted[i] = received[i] \o mailbox[i]

\* C7 (send): a send_message that finds a registered, open mailbox with a
\* slot to spare enqueues and returns Ok in the same step; one that finds
\* every slot taken suspends the caller and changes no mailbox; a send fails
\* only on a closed mailbox, never on a full one.
C7_SendStep ==
    \A c \in Callers :
        cseq'[c] # cseq[c] /\ actors[cname'[c]] # NoTask =>
            LET i == actors[cname'[c]] IN
            /\ (~Closed(i) /\ Taken(i) < MailboxCap) =>
                    /\ cpc'[c] = "idle"
                    /\ cresult'[c] = "Ok"
                    /\ mailbox'[i] = Append(mailbox[i], Regular(c, cseq'[c]))
            /\ (~Closed(i) /\ Taken(i) >= MailboxCap) =>
                    /\ cpc'[c] = "send_wait"
                    /\ ctarget'[c] = i
                    /\ cenv'[c] = Regular(c, cseq'[c])
                    /\ mailbox' = mailbox
            /\ cresult'[c] = "SendError" => Closed(i)

\* C7 (resume): a suspended sender is handed a slot only in a step in which
\* the actor's task takes an envelope off that mailbox, and a suspended send
\* ends by enqueueing its envelope at the back, or by failing because the
\* mailbox was closed meanwhile.
C7_ResumeStep ==
    \A c \in Callers :
        /\ (c \notin granted /\ c \in granted') =>
                /\ mailbox'[ctarget[c]] = Tail(mailbox[ctarget[c]])
                /\ task'[ctarget[c]] = "receive"
        /\ (cpc[c] = "send_wait" /\ cpc'[c] # "send_wait") =>
                LET i == ctarget[c] IN
                \/ /\ cresult'[c] = "Ok"
                   /\ c \in granted
                   /\ mailbox'[i] = Append(mailbox[i], cenv[c])
                \/ /\ cresult'[c] = "SendError"
                   /\ Closed(i)
                   /\ mailbox' = mailbox

\* C7 (progress): a suspended send ends, unless a task hangs in a receive
\* call and so never frees a slot.
C7_Resumes ==
    \A c \in Callers :
        (cpc[c] = "send_wait")
            ~> (cpc[c] = "idle" \/ \E i \in TaskIds : task[i] = "hung")

\* C7: the mailbox is bounded by its capacity; a send that finds a slot to
\* spare does not block; a send that finds none suspends the sender until
\* the actor frees a slot and then enqueues the envelope; no send is dropped
\* or rejected because the mailbox was full.
C7_Backpressure ==
    /\ []C7_Bounded
    /\ [][C7_SendStep /\ C7_ResumeStep]_vars
    /\ C7_Resumes

\* C7 witness: a send_message that was suspended on a full mailbox has been
\* resumed and its envelope is at the back of the mailbox, which is full
\* again.
C7_Witness ==
    \E c \in Callers, i \in TaskIds :
        /\ cpc[c] = "idle"
        /\ cresult[c] = "Ok"
        /\ cenv[c].kind = "Regular"
        /\ cenv[c].seq = cseq[c]
        /\ Len(mailbox[i]) = MailboxCap
        /\ mailbox[i][MailboxCap] = cenv[c]

\* C8: a load_state() that reads what a save_state() of the same actor_id
\* wrote leaves the instance with exactly the state that was saved, whatever
\* the actor_id and the state value are.
C8_RoundTrip ==
    [][\A x \in Insts :
          (/\ load_state(x, TRUE)
           /\ saved # <<>>
           /\ saved[1] = actor_id[x])
          => state'[x] = saved[2]]_vars

\* The persisted data does not start with the actor_id of x followed by the
\* separator: the text before its first separator differs from the
\* actor_id, or it has no separator at all.
ForeignData(x) ==
    \/ FirstSep(file) = 0
    \/ SubSeq(file, 1, FirstSep(file) - 1) # actor_id[x]

\* C9: a load_state() that reads data whose actor_id prefix differs from the
\* instance's actor_id, or data without a separator, returns Ok and leaves
\* the state of every instance as it was.
C9_ForeignLoadNoOp ==
    [][\A x \in Insts :
          (load_state(x, TRUE) /\ ForeignData(x))
          => (state' = state /\ sres' = <<x, "load", "Ok">>)]_vars

\* An instance with a non-empty state has loaded, with Ok, data that carries
\* another prefix and another state value.
C9_Witness ==
    \E x \in Insts :
        /\ sres = <<x, "load", "Ok">>
        /\ state[x] # <<>>
        /\ FirstSep(file) > 0
        /\ SubSeq(file, 1, FirstSep(file) - 1) # actor_id[x]
        /\ SubSeq(file, FirstSep(file) + 1, Len(file)) # state[x]

\* shutdown() has been called on the watch channel of x since the task of x
\* took its receiver.
Signalled(x) == version[chan[x]] # task_rx[x]

\* C10: once shutdown() has been called while the periodic task runs, the
\* task leaves its loop; it does so whether or not an interval elapses (no
\* step of time is assumed to happen), the shutdown branch being ready at
\* every select from then on.
C10_TaskStops ==
    /\ \A x \in Insts :
          (ptask[x] = "select" /\ Signalled(x)) ~> (ptask[x] = "stopped")
    /\ [](\A x \in Insts :
          (ptask[x] = "select" /\ Signalled(x)) => ENABLED snapshot_stop(x))

\* The task of the clone has run its first tick and has stopped on the
\* shared signal with no interval elapsed.
C10_Witness ==
    /\ ptask["orig"] = "none"
    /\ ptask["other"] = "stopped"
    /\ ~tick_due["other"]
    /\ elapsed["other"] = 0
    /\ version[chan["other"]] = 1

\* C11: the periodic task prefers the shutdown signal to the timer: it never
\* takes the tick branch (and so never saves) at a select at which the
\* shutdown signal is ready.
C11_ShutdownFirst ==
    [][\A x \in Insts, how \in WriteOutcomes :
          snapshot_tick(x, how) => ~Signalled(x)]_vars

\* C12: in the documented usage the main task gets the mutex, sends the
\* shutdown signal, the snapshot task stops and the await of the spawned
\* task completes.
C12_ExampleCompletes ==
    <>(/\ mpc = "joined"
       /\ ptask["orig"] = "stopped"
       /\ version[chan["orig"]] # SeenAtCreation)

\* C13: a save that fails inside the periodic task is not propagated: the
\* step in which it fails leaves the task in its loop and returns nothing to
\* anyone; afterwards the task still saves when a tick is due, stops only on
\* the shutdown signal, and does stop once the signal has fired.
C13_SaveFailureLogged ==
    /\ [][\A x \in Insts :
            (tfail'[x] = "failed" /\ tfail[x] # "failed")
                => (ptask'[x] = "select" /\ sres' = sres)]_vars
    /\ [](\A x \in Insts :
            /\ (tfail[x] = "failed" /\ ptask[x] = "select" /\ tick_due[x])
                    => ENABLED snapshot_tick(x, "ok")
            /\ ptask[x] = "stopped" => version[chan[x]] # SeenAtCreation)
    /\ \A x \in Insts :
          (tfail[x] = "failed" /\ ptask[x] = "select" /\ Signalled(x))
              ~> (ptask[x] = "stopped")

\* C13 witness: the periodic task of the clone has saved the state on a
\* tick after a tick whose save failed, and has then stopped on the signal.
C13_Witness ==
    /\ tfail["other"] = "saved_after"
    /\ saved = <<actor_id["other"], state["other"]>>
    /\ file = Format(actor_id["other"], state["other"])
    /\ ptask["other"] = "stopped"

\* C14: shutdown() returns at once and waits for nobody (the step of the call
\* changes nothing but the channel, whatever the periodic tasks are doing,
\* and the call can be made whenever the actor can be borrowed); and a call
\* after the first changes nothing that can be observed: the signal stays
\* set, and it stays ready for every running task.  (A running task's
\* receiver has seen nothing since the channel was made.)
C14_ShutdownIdempotent ==
    /\ [][\A ch \in 1..2 :
            version'[ch] # version[ch] =>
                /\ UNCHANGED <<state, actor_id, chan, file, ptask, task_rx,
                               tick_due, elapsed, saved, tfail, nsaves, sres>>
                /\ version'[ch] # SeenAtCreation
                /\ version[ch] # SeenAtCreation =>
                       \A x \in Insts :
                           (chan[x] = ch /\ ptask[x] = "select") =>
                               /\ version[ch] # task_rx[x]
                               /\ version'[ch] # task_rx[x]]_vars
    /\ [](\A x \in Insts :
            /\ ptask[x] = "select" => task_rx[x] = SeenAtCreation
            /\ (~Borrowed(x) /\ version[chan[x]] < MaxSignals)
                    => ENABLED snapshot_shutdown(x))

\* C14 witness: shutdown() has been called twice while the periodic task of
\* the clone is running and has not yet observed the signal.
C14_Witness ==
    /\ version[chan["orig"]] = 2
    /\ chan["other"] = chan["orig"]
    /\ ptask["other"] = "select"
    /\ ~Borrowed("orig")

\* C15: no DataActor operation of a shutdown (receive of a Shutdown
\* envelope, or cleanup) returns an error.
C15_CleanupSwallowed ==
    (dres # <<>> /\ dres[1] \in {"receive_shutdown", "cleanup"})
        => dres[2] = "Ok"

\* C16: what a handle_failure call yields is the directive that equals the
\* strategy the Supervisor was made with.
C16_DirectiveIsStrategy == hres # "none" => hres = strategy

\* A read_from_backend has just returned Ok(data).
ReadReturned(data) == dres = <<"read_from_backend", "Ok", data>>

Accepts(i) == accepted'[i] # accepted[i]

\* C18: registering an actor under a registered name replaces the routing of
\* the name: the name is routed to the task spawned by that add_actor, the
\* task registered before holds no route any more, and every envelope of a
\* send_message or of shutdown() is enqueued only into a task that a name is
\* routed to at that moment (send_message(c, n): the task n is routed to).
C18_ReplacedRouting ==
    [][/\ \A n \in Names : add_actor(n) =>
             LET old == actors[n] IN
             /\ actors'[n] = spawned'
             /\ actors'[n] # old
             /\ old # NoTask => \A m \in Names : actors'[m] # old
       /\ \A i \in TaskIds : Accepts(i) => SenderHeld(i)
       /\ \A c \in Callers, n \in Names : send_message(c, n) =>
             \A i \in TaskIds : Accepts(i) => i = actors[n]
       /\ \A c \in Callers :
             cpc[c] \in {"send_wait", "shutdown_wait"} =>
                 SenderHeld(ctarget[c])]_vars

\* "a" was registered twice: the first actor took a message sent before the
\* second registration, the second one took a later message and the
\* Shutdown of shutdown(), of which the first one got nothing.
C18_Witness ==
    /\ ~dropped
    /\ spawned = 2
    /\ actors["a"] = 2
    /\ actors["b"] = NoTask
    /\ accepted[1] = <<Regular("c1", 1)>>
    /\ accepted[2] = <<Regular("c1", 2), Shutdown>>

\* Caller c is inside ActorSystem::shutdown.
InShutdown(c) == cpc[c] \in {"shutdown", "shutdown_wait"}

\* C19: shutdown() removes no registry entry: from its call to its return
\* the registry stays as it is, and a send_message to a registered name,
\* after a shutdown() as before, does not return "not found".
C19_RegistryKept ==
    [][/\ \A c \in Callers :
             (InShutdown(c) \/ InShutdown(c)') => actors' = actors
       /\ \A c \in Callers, n \in Names :
             (send_message(c, n) /\ actors[n] # NoTask) =>
                 cresult'[c] # "NotFound"]_vars

\* The caller whose shutdown() has returned then sent a message to "a":
\* the name was still registered and the envelope was enqueued behind the
\* Shutdown.
C19_Witness ==
    /\ nshutdowns = 1
    /\ cpc["c2"] = "idle"
    /\ actors["a"] = 1
    /\ cname["c2"] = "a"
    /\ cresult["c2"] = "Ok"
    /\ accepted[1] = <<Shutdown, Regular("c2", 1)>>

\* Task i was spawned and no Sender of its channel is left.
Orphaned(i) == task[i] # "unspawned" /\ ~SenderHeld(i)

\* Task i has ended after passing every accepted envelope to receive and
\* running cleanup once.
TornDown(i) ==
    /\ task[i] = "done"
    /\ received[i] = accepted[i]
    /\ cleanups[i] = 1

\* C20 (order): what is passed to receive is what was accepted, in that
\* order; cleanup runs at most once, only when no Sender is left, and only
\* after everything accepted was passed to receive.
C20_DrainedFirst ==
    \A i \in TaskIds :
        /\ IsPrefix(received[i], accepted[i])
        /\ cleanups[i] <= 1
        /\ cleanups[i] = 1 => Orphaned(i) /\ received[i] = accepted[i]
        /\ task[i] = "done" => cleanups[i] = 1

\* C20: once the only Sender of an actor is dropped (its name is registered
\* again, or the ActorSystem is dropped), its task passes every envelope
\* still queued to receive in order, then runs cleanup exactly once and
\* ends, unless a receive call of that task does not return.  (Being
\* orphaned, stuck or torn down are all permanent.)
C20_TeardownDrains ==
    /\ []C20_DrainedFirst
    /\ \A i \in TaskIds : []<>(~Orphaned(i) \/ Stuck(i) \/ TornDown(i))

\* "a" was registered again and then the system was dropped: the first task
\* is torn down, the second one, orphaned with two envelopes accepted, is in
\* receive with the first while the second is still queued.
C20_Witness ==
    /\ dropped
    /\ TornDown(1)
    /\ accepted[1] = <<Regular(Producer, 1)>>
    /\ Orphaned(2)
    /\ task[2] = "receive"
    /\ received[2] = <<Regular(Producer, 2)>>
    /\ mailbox[2] = <<Regular(Producer, 3)>>

C21_Latched ==
    /\ version[1] # SeenAtCreation
    /\ \A x \in Insts :
          /\ ptask[x] = "select" => Signalled(x) /\ ENABLED snapshot_stop(x)
          /\ nsaves[x] <= 1 + elapsed[x]
          /\ (ptask[x] = "select" /\ ~tick_due[x]) =>
                \A how \in WriteOutcomes : ~ENABLED snapshot_tick(x, how)

Ticks(x) == nsaves'[x] = nsaves[x] + 1

\* C22: the periodic task of a clone persists the clone's own state: a tick
\* writes (a successful one: in full) the actor_id and state of the instance
\* the task runs on, whatever the other instance holds or has saved; that
\* state cannot change while the task runs, and a set_state on one instance
\* leaves the other's state alone.  So a tick of the clone replaces a newer
\* snapshot the original has saved with the clone's older state.
C22_CloneSavesOwnState ==
    [][\A x \in Insts :
         /\ Ticks(x) =>
              /\ file' = file
                   \/ IsPrefix(file', Format(actor_id[x], state[x]))
              /\ saved' # saved => saved' \in {<<>>, <<actor_id[x], state[x]>>}
              /\ state' = state
         /\ snapshot_tick(x, "ok") =>
              /\ file' = Format(actor_id[x], state[x])
              /\ saved' = <<actor_id[x], state[x]>>
         /\ (ptask[x] = "select" /\ ptask'[x] = "select") =>
              state'[x] = state[x]
         /\ \A y \in Insts \ {x}, s \in TaskStates :
              set_state(y, s) => state'[x] = state[x]]_vars

\* The original holds a newer state and has saved it, and the file holds
\* the older state of the clone, written by the one tick of its task.
C22_Witness ==
    /\ chan["other"] = chan["orig"]
    /\ actor_id["other"] = actor_id["orig"]
    /\ state["orig"] = <<"a">>
    /\ state["other"] = <<>>
    /\ sres = <<"orig", "save", "Ok">>
    /\ ptask["other"] = "select"
    /\ nsaves["other"] = 1
    /\ saved = <<actor_id["other"], <<>>>>
    /\ file = Format(actor_id["other"], <<>>)

====
